---- MODULE Spec2Model ----
(***************************************************************************)
(* Model of internal/environment/environment.go: the lifecycle operations  *)
(* of a container environment (FindEnvironment, Start, Stop, Remove,       *)
(* Purge) and readPath, which copies a path out of the container as a tar  *)
(* stream and rewrites every entry name.                                   *)
(*                                                                         *)
(* Strings whose characters matter (paths, entry names) are sequences of   *)
(* one-character strings.  Runtime error messages are sequences of tokens, *)
(* so that strings.Contains is an actual substring search.                 *)
(***************************************************************************)
EXTENDS Integers, Sequences, FiniteSets, TLC

VARIABLES
    handles,      \* names for which FindEnvironment has returned an *Environment
    op,           \* the function the caller invoked last ("none" before any call)
    args,         \* its arguments: [name, path]
    stack,        \* call stack of frames [fn, pc, defers, rt, res]
    ret,          \* values returned by the frame that returned last
    returned,     \* history of the current call: <<[fn, err]>> per function return
    log,          \* history of the current call: requests sent to the runtime
    openClients,  \* docker clients opened and not yet closed
    rdr,          \* the stream from CopyFromContainer: "nil", "open", "closed"
    base,         \* readPath's local base
    read,         \* entries tr.Next has decoded from the stream so far
    buf,          \* entries written to the tar writer over buf
    twClosed      \* whether tw.Close has finalized the archive

vars == <<handles, op, args, stack, ret, returned, log, openClients, rdr,
          base, read, buf, twClosed>>

----------------------------------------------------------------------------
(* Bounds *)

MaxEntries == 2
MaxPathLen == 3
MaxNameLen == 3

Alphabet == {"/", ".", "a", "b"}

ContainerNames == {"web1", "web2"}

\* /data/logs, /tmp/somedir/ and /
Paths ==
    { <<"/","d","a","t","a","/","l","o","g","s">>,
      <<"/","t","m","p","/","s","o","m","e","d","i","r","/">>,
      <<"/">> }

\* logs, logs/a.log, logs/slogs_extra, somedir/file
EntryNames ==
    { <<"l","o","g","s">>,
      <<"l","o","g","s","/","a",".","l","o","g">>,
      <<"l","o","g","s","/","s","l","o","g","s","_","e","x","t","r","a">>,
      <<"s","o","m","e","d","i","r","/","f","i","l","e">> }

\* the header fields other than the name, and the payload
Bodies ==
    { [meta |-> "dir",  payload |-> <<>>],
      [meta |-> "file", payload |-> <<"x">>],
      [meta |-> "file", payload |-> <<"x", "y">>] }

Entries == [name : EntryNames, body : Bodies]

Strings(n) == UNION { [1..k -> Alphabet] : k \in 0..n }

----------------------------------------------------------------------------
(* Errors *)

\* a Go error value: nil, one of the two sentinels, or an Errorf("ctx: %w", cause)
NilErr == [tag |-> "nil", ctx |-> "", cause |-> <<>>]
ErrMissingContainer == [tag |-> "ErrMissingContainer", ctx |-> "", cause |-> <<>>]
errNoSuchFile == [tag |-> "errNoSuchFile", ctx |-> "", cause |-> <<>>]
Wrap(ctx, cause) == [tag |-> "wrapped", ctx |-> ctx, cause |-> cause]

\* what a runtime call answers: no error, or an error with a message
RtOK == [isNil |-> TRUE, msg |-> <<>>]
RtErr(msg) == [isNil |-> FALSE, msg |-> msg]

MsgNoSuchContainer == <<"Error: ", "No such container", ": ", "name">>
MsgNoSuchPath == <<"Error: ", "No such container", ":path", ": ", "name:path">>
MsgTransport == <<"Cannot connect to the Docker daemon">>

RuntimeErrors == { RtErr(MsgNoSuchContainer), RtErr(MsgNoSuchPath), RtErr(MsgTransport) }
RuntimeResults == {RtOK} \cup RuntimeErrors

CodecErrors == { <<"unexpected EOF">>, <<"archive/tar: invalid tar header">> }

Contains(s, substr) ==
    \E i \in 0..(Len(s) - Len(substr)) : SubSeq(s, i + 1, i + Len(substr)) = substr

\* variant: matches another message
isPathNotFoundNoSuchFile(err) ==
    IF err.isNil THEN FALSE
    ELSE Contains(err.msg, <<"No such file">>)

isPathNotFound(err) ==
    IF err.isNil THEN FALSE
    ELSE Contains(err.msg, <<"No such container", ":path">>)

\* variant: matches the message in lower case
isContainerNotFoundErrorLowerCase(err) ==
    IF err.isNil THEN FALSE
    ELSE Contains(err.msg, <<"no such container">>)

isContainerNotFoundError(err) ==
    IF err.isNil THEN FALSE
    ELSE Contains(err.msg, <<"No such container">>)

----------------------------------------------------------------------------
(* Strings *)

Range(s) == { s[i] : i \in 1..Len(s) }

RECURSIVE StripTrailingSlashes(_)
StripTrailingSlashes(p) ==
    IF Len(p) > 0 /\ p[Len(p)] = "/"
    THEN StripTrailingSlashes(SubSeq(p, 1, Len(p) - 1))
    ELSE p

RECURSIVE LastSlash(_, _)
LastSlash(p, i) ==
    IF i >= 1 /\ p[i] # "/" THEN LastSlash(p, i - 1) ELSE i

Base(p) ==
    IF p = <<>> THEN <<".">>
    ELSE LET s == StripTrailingSlashes(p)
             i == LastSlash(s, Len(s))
             e == IF i >= 1 THEN SubSeq(s, i + 1, Len(s)) ELSE s
         IN  IF e = <<>> THEN <<"/">> ELSE e

\* variant: strings.TrimPrefix in place of strings.TrimLeft
TrimPrefix(s, prefix) ==
    IF Len(s) >= Len(prefix) /\ SubSeq(s, 1, Len(prefix)) = prefix
    THEN SubSeq(s, Len(prefix) + 1, Len(s))
    ELSE s

RECURSIVE TrimLeft(_, _)
TrimLeft(s, cutset) ==
    IF s = <<>> \/ cutset = <<>> THEN s
    ELSE IF Head(s) \in Range(cutset) THEN TrimLeft(Tail(s), cutset)
    ELSE s

----------------------------------------------------------------------------
(* Frames *)

NoRes == [env |-> <<>>, err |-> NilErr, archive |-> <<>>]

Frame(fn, pc) == [fn |-> fn, pc |-> pc, defers |-> <<>>, rt |-> RtOK, res |-> NoRes]

Top == stack[Len(stack)]
SetTop(f) == [stack EXCEPT ![Len(stack)] = f]
At(fn, pc) == stack # <<>> /\ Top.fn = fn /\ Top.pc = pc

Returning(f, env, err, archive) ==
    [f EXCEPT !.pc = "return",
              !.res = [env |-> env, err |-> err, archive |-> archive]]

Request(req, r) == Append(log, [req |-> req, name |-> args.name, result |-> r])

FirstPc(fn) == IF fn = "Purge" THEN "Stop" ELSE "dockerClient"

RequestPc(fn) ==
    CASE fn = "FindEnvironment" -> "ContainerInspect"
      [] fn = "Start" -> "ContainerStart"
      [] fn = "Stop" -> "ContainerStop"
      [] fn = "Remove" -> "ContainerRemove"
      [] fn = "readPath" -> "CopyFromContainer"

Ops == {"FindEnvironment", "Start", "Stop", "Remove", "Purge", "readPath"}

----------------------------------------------------------------------------
(* Initial state: nothing has been called *)

Init ==
    /\ handles = {}
    /\ op = "none"
    /\ args = [name |-> "web1", path |-> <<>>]
    /\ stack = <<>>
    /\ ret = NoRes
    /\ returned = <<>>
    /\ log = <<>>
    /\ openClients = 0
    /\ rdr = "nil"
    /\ base = <<>>
    /\ read = <<>>
    /\ buf = <<>>
    /\ twClosed = FALSE

----------------------------------------------------------------------------
(* A caller invokes one of the package's functions *)

Call ==
    /\ stack = <<>>
    /\ \E fn \in Ops :
         \E name \in (IF fn = "FindEnvironment" THEN ContainerNames ELSE handles) :
           \E path \in (IF fn = "readPath" THEN Paths ELSE {<<>>}) :
             /\ op' = fn
             /\ args' = [name |-> name, path |-> path]
             /\ stack' = <<Frame(fn, FirstPc(fn))>>
    /\ ret' = NoRes
    /\ returned' = <<>>
    /\ log' = <<>>
    /\ rdr' = "nil"
    /\ base' = <<>>
    /\ read' = <<>>
    /\ buf' = <<>>
    /\ twClosed' = FALSE
    /\ UNCHANGED <<handles, openClients>>

\* cli := dockerClient(); defer cli.Close()
dockerClient ==
    /\ stack # <<>>
    /\ Top.pc = "dockerClient"
    /\ openClients' = openClients + 1
    /\ stack' = SetTop([Top EXCEPT !.pc = RequestPc(Top.fn),
                                   !.defers = Append(@, "cli")])
    /\ UNCHANGED <<handles, op, args, ret, returned, log, rdr, base, read, buf, twClosed>>

\* the deferred calls run, last registered first, and the function returns
RunDefersClients(defers) ==
    openClients - Cardinality({ i \in 1..Len(defers) : defers[i] = "cli" })

RunDefersStream(defers) ==
    IF \E i \in 1..Len(defers) : defers[i] = "rdr" THEN "closed" ELSE rdr

\* variant: the deferred calls run only when the function returns no error
ReturnClosingOnSuccessOnly ==
    /\ stack # <<>>
    /\ Top.pc = "return"
    /\ openClients' = IF Top.res.err = NilErr THEN RunDefersClients(Top.defers) ELSE openClients
    /\ rdr' = IF Top.res.err = NilErr THEN RunDefersStream(Top.defers) ELSE rdr
    /\ ret' = Top.res
    /\ returned' = Append(returned, [fn |-> Top.fn, err |-> Top.res.err])
    /\ stack' = SubSeq(stack, 1, Len(stack) - 1)
    /\ handles' = IF Len(stack) = 1 /\ Top.fn = "FindEnvironment" /\ Top.res.env # <<>>
                  THEN handles \cup {Top.res.env[1]}
                  ELSE handles
    /\ UNCHANGED <<op, args, log, base, read, buf, twClosed>>

Return ==
    /\ stack # <<>>
    /\ Top.pc = "return"
    /\ openClients' = RunDefersClients(Top.defers)
    /\ rdr' = RunDefersStream(Top.defers)
    /\ ret' = Top.res
    /\ returned' = Append(returned, [fn |-> Top.fn, err |-> Top.res.err])
    /\ stack' = SubSeq(stack, 1, Len(stack) - 1)
    /\ handles' = IF Len(stack) = 1 /\ Top.fn = "FindEnvironment" /\ Top.res.env # <<>>
                  THEN handles \cup {Top.res.env[1]}
                  ELSE handles
    /\ UNCHANGED <<op, args, log, base, read, buf, twClosed>>

----------------------------------------------------------------------------
(* FindEnvironment *)

\* cnt, err := cli.ContainerInspect(ctx, name) and the two checks of err
ContainerInspect ==
    /\ At("FindEnvironment", "ContainerInspect")
    /\ \E r \in RuntimeResults :
         /\ log' = Request("inspect", r)
         /\ stack' = SetTop(
              IF isContainerNotFoundError(r)
              THEN Returning([Top EXCEPT !.rt = r], <<>>, ErrMissingContainer, <<>>)
              ELSE IF ~r.isNil
              THEN Returning([Top EXCEPT !.rt = r], <<>>,
                             Wrap("failed to inspect container", r.msg), <<>>)
              ELSE [Top EXCEPT !.rt = r, !.pc = "Start"])
    /\ UNCHANGED <<handles, op, args, ret, returned, openClients, rdr, base, read, buf, twClosed>>

\* err = Start(ctx, env)
FindStart ==
    /\ At("FindEnvironment", "Start")
    /\ stack' = Append(SetTop([Top EXCEPT !.pc = "StartReturned"]),
                       Frame("Start", FirstPc("Start")))
    /\ UNCHANGED <<handles, op, args, ret, returned, log, openClients, rdr, base, read, buf, twClosed>>

\* variant: the error of Start is dropped
FindAfterStartIgnoringErr ==
    /\ At("FindEnvironment", "StartReturned")
    /\ stack' = SetTop(Returning(Top, <<args.name>>, NilErr, <<>>))
    /\ UNCHANGED <<handles, op, args, ret, returned, log, openClients, rdr, base, read, buf, twClosed>>

\* if err != nil { return nil, err }; return env, nil
FindAfterStart ==
    /\ At("FindEnvironment", "StartReturned")
    /\ stack' = SetTop(
         IF ret.err # NilErr
         THEN Returning(Top, <<>>, ret.err, <<>>)
         ELSE Returning(Top, <<args.name>>, NilErr, <<>>))
    /\ UNCHANGED <<handles, op, args, ret, returned, log, openClients, rdr, base, read, buf, twClosed>>

----------------------------------------------------------------------------
(* Start, Stop, Remove *)

\* variant: "no such container" is turned into ErrMissingContainer
RuntimeCallSentinel(fn, req, ctx) ==
    /\ At(fn, RequestPc(fn))
    /\ \E r \in RuntimeResults :
         /\ log' = Request(req, r)
         /\ stack' = SetTop(
              IF isContainerNotFoundError(r)
              THEN Returning([Top EXCEPT !.rt = r], <<>>, ErrMissingContainer, <<>>)
              ELSE IF ~r.isNil
              THEN Returning([Top EXCEPT !.rt = r], <<>>, Wrap(ctx, r.msg), <<>>)
              ELSE Returning([Top EXCEPT !.rt = r], <<>>, NilErr, <<>>))
    /\ UNCHANGED <<handles, op, args, ret, returned, openClients, rdr, base, read, buf, twClosed>>

RuntimeCall(fn, req, ctx) ==
    /\ At(fn, RequestPc(fn))
    /\ \E r \in RuntimeResults :
         /\ log' = Request(req, r)
         /\ stack' = SetTop(
              IF ~r.isNil
              THEN Returning([Top EXCEPT !.rt = r], <<>>, Wrap(ctx, r.msg), <<>>)
              ELSE Returning([Top EXCEPT !.rt = r], <<>>, NilErr, <<>>))
    /\ UNCHANGED <<handles, op, args, ret, returned, openClients, rdr, base, read, buf, twClosed>>

Start == RuntimeCall("Start", "start", "failed to start container")

Stop == RuntimeCall("Stop", "stop", "failed to stop container")

Remove == RuntimeCall("Remove", "remove", "failed to remove container")

----------------------------------------------------------------------------
(* Purge *)

\* err := Stop(ctx, env)
PurgeStop ==
    /\ At("Purge", "Stop")
    /\ stack' = Append(SetTop([Top EXCEPT !.pc = "StopReturned"]),
                       Frame("Stop", FirstPc("Stop")))
    /\ UNCHANGED <<handles, op, args, ret, returned, log, openClients, rdr, base, read, buf, twClosed>>

\* variant: Remove is called whatever Stop returned
PurgeAfterStopAlwaysRemove ==
    /\ At("Purge", "StopReturned")
    /\ stack' = Append(SetTop([Top EXCEPT !.pc = "RemoveReturned"]),
                       Frame("Remove", FirstPc("Remove")))
    /\ UNCHANGED <<handles, op, args, ret, returned, log, openClients, rdr, base, read, buf, twClosed>>

\* if err != nil { return err }; err = Remove(ctx, env)
PurgeAfterStop ==
    /\ At("Purge", "StopReturned")
    /\ stack' = IF ret.err # NilErr
                THEN SetTop(Returning(Top, <<>>, ret.err, <<>>))
                ELSE Append(SetTop([Top EXCEPT !.pc = "RemoveReturned"]),
                            Frame("Remove", FirstPc("Remove")))
    /\ UNCHANGED <<handles, op, args, ret, returned, log, openClients, rdr, base, read, buf, twClosed>>

\* if err != nil { return err }; return nil
PurgeAfterRemove ==
    /\ At("Purge", "RemoveReturned")
    /\ stack' = SetTop(
         IF ret.err # NilErr
         THEN Returning(Top, <<>>, ret.err, <<>>)
         ELSE Returning(Top, <<>>, NilErr, <<>>))
    /\ UNCHANGED <<handles, op, args, ret, returned, log, openClients, rdr, base, read, buf, twClosed>>

----------------------------------------------------------------------------
(* readPath *)

\* rdr, _, err := cli.CopyFromContainer(ctx, e.name, path), the two checks of
\* err, defer rdr.Close() and the locals buf, base, tr, tw
CopyFromContainer ==
    /\ At("readPath", "CopyFromContainer")
    /\ \E r \in RuntimeResults :
         /\ log' = Request("copy", r)
         /\ IF isPathNotFound(r)
            THEN /\ stack' = SetTop(Returning([Top EXCEPT !.rt = r], <<>>, errNoSuchFile, <<>>))
                 /\ UNCHANGED <<rdr, base>>
            ELSE IF ~r.isNil
            THEN /\ stack' = SetTop(Returning([Top EXCEPT !.rt = r], <<>>,
                                              Wrap("failed to get reader for path", r.msg), <<>>))
                 /\ UNCHANGED <<rdr, base>>
            ELSE /\ rdr' = "open"
                 /\ base' = Base(args.path)
                 /\ stack' = SetTop([Top EXCEPT !.rt = r, !.pc = "Next",
                                                !.defers = Append(@, "rdr")])
    /\ UNCHANGED <<handles, op, args, ret, returned, openClients, read, buf, twClosed>>

\* hdr, err := tr.Next(): the end of the stream, a decoding error, or the next entry
TarNext ==
    /\ At("readPath", "Next")
    /\ \/ /\ stack' = SetTop([Top EXCEPT !.pc = "Close"])
          /\ UNCHANGED read
       \/ /\ \E c \in CodecErrors :
               stack' = SetTop(Returning(Top, <<>>,
                                         Wrap("failed to read from tar reader", c), <<>>))
          /\ UNCHANGED read
       \/ /\ Len(read) < MaxEntries
          /\ \E e \in Entries : read' = Append(read, e)
          /\ stack' = SetTop([Top EXCEPT !.pc = "WriteHeader"])
    /\ UNCHANGED <<handles, op, args, ret, returned, log, openClients, rdr, base, buf, twClosed>>

\* hdr.Name = strings.TrimLeft(hdr.Name, base+"/")
RewriteName(name) == TrimLeft(name, base \o <<"/">>)

\* variant: an entry whose rewritten name is empty is skipped
WriteHeaderSkipEmpty ==
    /\ At("readPath", "WriteHeader")
    /\ LET hdr == read[Len(read)]
       IN  \/ /\ RewriteName(hdr.name) # <<>>
              /\ buf' = Append(buf, [name |-> RewriteName(hdr.name),
                                     body |-> [hdr.body EXCEPT !.payload = <<>>]])
              /\ stack' = SetTop([Top EXCEPT !.pc = "Copy"])
           \/ /\ RewriteName(hdr.name) = <<>>
              /\ stack' = SetTop([Top EXCEPT !.pc = "Next"])
              /\ UNCHANGED buf
           \/ /\ \E c \in CodecErrors :
                   stack' = SetTop(Returning(Top, <<>>, Wrap("failed to write header", c), <<>>))
              /\ UNCHANGED buf
    /\ UNCHANGED <<handles, op, args, ret, returned, log, openClients, rdr, base, read, twClosed>>

\* the rewrite of hdr.Name and err = tw.WriteHeader(hdr)
WriteHeader ==
    /\ At("readPath", "WriteHeader")
    /\ LET hdr == read[Len(read)]
       IN  \/ /\ buf' = Append(buf, [name |-> RewriteName(hdr.name),
                                     body |-> [hdr.body EXCEPT !.payload = <<>>]])
              /\ stack' = SetTop([Top EXCEPT !.pc = "Copy"])
           \/ /\ \E c \in CodecErrors :
                   stack' = SetTop(Returning(Top, <<>>, Wrap("failed to write header", c), <<>>))
              /\ UNCHANGED buf
    /\ UNCHANGED <<handles, op, args, ret, returned, log, openClients, rdr, base, read, twClosed>>

\* variant: the error of io.Copy is dropped
CopyIgnoringError ==
    /\ At("readPath", "Copy")
    /\ LET payload == read[Len(read)].body.payload
       IN  \E k \in 0..Len(payload) :
              buf' = [buf EXCEPT ![Len(buf)].body.payload = SubSeq(payload, 1, k)]
    /\ stack' = SetTop([Top EXCEPT !.pc = "Next"])
    /\ UNCHANGED <<handles, op, args, ret, returned, log, openClients, rdr, base, read, twClosed>>

\* _, err = io.Copy(tw, tr): the whole payload, or an error after k bytes
Copy ==
    /\ At("readPath", "Copy")
    /\ LET payload == read[Len(read)].body.payload
       IN  \/ /\ buf' = [buf EXCEPT ![Len(buf)].body.payload = payload]
              /\ stack' = SetTop([Top EXCEPT !.pc = "Next"])
           \/ /\ \E k \in 0..Len(payload) :
                   buf' = [buf EXCEPT ![Len(buf)].body.payload = SubSeq(payload, 1, k)]
              /\ \E c \in CodecErrors :
                   stack' = SetTop(Returning(Top, <<>>, Wrap("failed to copy", c), <<>>))
    /\ UNCHANGED <<handles, op, args, ret, returned, log, openClients, rdr, base, read, twClosed>>

\* err = tw.Close() and return &buf, nil
Close ==
    /\ At("readPath", "Close")
    /\ \/ /\ twClosed' = TRUE
          /\ stack' = SetTop(Returning(Top, <<>>, NilErr,
                                       <<[entries |-> buf, closed |-> TRUE]>>))
       \/ /\ \E c \in CodecErrors :
               stack' = SetTop(Returning(Top, <<>>, Wrap("failed to close tar writer", c), <<>>))
          /\ UNCHANGED twClosed
    /\ UNCHANGED <<handles, op, args, ret, returned, log, openClients, rdr, base, read, buf>>

----------------------------------------------------------------------------
(* The component: any caller, any runtime answers *)

Next ==
    \/ Call
    \/ dockerClient
    \/ Return
    \/ ContainerInspect
    \/ FindStart
    \/ FindAfterStart
    \/ Start
    \/ Stop
    \/ Remove
    \/ PurgeStop
    \/ PurgeAfterStop
    \/ PurgeAfterRemove
    \/ CopyFromContainer
    \/ TarNext
    \/ WriteHeader
    \/ Copy
    \/ Close

Spec == Init /\ [][Next]_vars

----------------------------------------------------------------------------
(* The name rewrite alone: readPath stands at the rewrite of the header it *)
(* has just decoded, for any path and any entry name over Alphabet         *)

InitRename ==
    /\ handles = {"web1"}
    /\ op = "readPath"
    /\ \E path \in Strings(MaxPathLen) :
         /\ args = [name |-> "web1", path |-> path]
         /\ base = Base(path)
    /\ stack = <<[Frame("readPath", "WriteHeader") EXCEPT !.defers = <<"cli", "rdr">>]>>
    /\ ret = NoRes
    /\ returned = <<>>
    /\ log = <<[req |-> "copy", name |-> "web1", result |-> RtOK]>>
    /\ openClients = 1
    /\ rdr = "open"
    /\ \E name \in Strings(MaxNameLen) :
         read = <<[name |-> name, body |-> [meta |-> "file", payload |-> <<"x">>]]>>
    /\ buf = <<>>
    /\ twClosed = FALSE

NextRename == WriteHeader

SpecRename == InitRename /\ [][NextRename]_vars

----------------------------------------------------------------------------
(* Properties *)

\* the call of fn made by the caller has returned
Done(fn) == stack = <<>> /\ op = fn

Failed(r) == ~r.isNil

\* the runtime's message names a missing container / a missing path
SaysNoSuchContainer(r) == Failed(r) /\ "No such container" \in Range(r.msg)
SaysNoSuchPath(r) == Failed(r) /\ r.msg = MsgNoSuchPath

Requests == { log[i].req : i \in 1..Len(log) }

\* out is in without its longest leading run of characters of set
LeadingRunRemoved(in, out, set) ==
    \E k \in 0..Len(in) :
       /\ out = SubSeq(in, k + 1, Len(in))
       /\ \A i \in 1..k : in[i] \in set
       /\ k < Len(in) => in[k + 1] \notin set

C2_ReRooted ==
    \A i \in 1..Len(buf) :
       LET pre == Base(args.path) \o <<"/">>
           n == read[i].name
       IN  (/\ Len(n) > Len(pre)
            /\ SubSeq(n, 1, Len(pre)) = pre
            /\ n[Len(pre) + 1] # "/")
           => buf[i].name = SubSeq(n, Len(pre) + 1, Len(n))

\* C3: when readPath succeeds its archive is finalized and holds one entry per
\* decoded entry, in the same order, with the same payload and the same header
\* fields other than the name; an entry renamed to "" is kept, and no entries
\* in gives no entries out.
C3_EntriesPreserved ==
    (Done("readPath") /\ ret.err = NilErr) =>
       /\ Len(ret.archive) = 1
       /\ ret.archive[1].closed
       /\ Len(ret.archive[1].entries) = Len(read)
       /\ \A i \in 1..Len(read) : ret.archive[1].entries[i].body = read[i].body

C3_Witness ==
    /\ Done("readPath")
    /\ ret.err = NilErr
    /\ Len(read) = 2
    /\ Len(ret.archive) = 1
    /\ ret.archive[1].entries[1].name = <<>>
    /\ ret.archive[1].entries[2].body.payload = <<"x", "y">>

\* C4: when the copy request fails because the path does not exist, readPath
\* returns errNoSuchFile and no archive, and no entry is decoded or written and
\* no stream obtained.
C4_PathNotFound ==
    (op = "readPath" /\ log # <<>> /\ SaysNoSuchPath(log[1].result)) =>
       /\ read = <<>>
       /\ buf = <<>>
       /\ rdr = "nil"
       /\ stack = <<>> => (ret.err = errNoSuchFile /\ ret.archive = <<>>)

C4_Witness ==
    /\ Done("readPath")
    /\ SaysNoSuchPath(log[1].result)
    /\ ret.err = errNoSuchFile

\* C5: when the runtime answers inspect with "no such container",
\* FindEnvironment returns ErrMissingContainer and no handle, and sends no
\* start request.
C5_MissingContainer ==
    (op = "FindEnvironment" /\ log # <<>> /\ SaysNoSuchContainer(log[1].result)) =>
       /\ Requests = {"inspect"}
       /\ stack = <<>> => (ret.err = ErrMissingContainer /\ ret.env = <<>>)

C5_Witness ==
    /\ Done("FindEnvironment")
    /\ log[1].result = RtErr(MsgNoSuchContainer)
    /\ ret.err = ErrMissingContainer

\* C6: FindEnvironment sends start only after a successful inspect, returns a
\* handle only after the start request for the name has succeeded, and returns
\* the error of Start and no handle when start fails.
C6_HandleImpliesStarted ==
    op = "FindEnvironment" =>
       /\ \A i \in 1..Len(log) :
            log[i].req = "start" =>
               /\ i = 2
               /\ log[1].req = "inspect"
               /\ log[1].result.isNil
       /\ (stack = <<>> /\ ret.env # <<>>) =>
             /\ ret.env = <<args.name>>
             /\ ret.err = NilErr
             /\ Len(log) = 2
             /\ log[2] = [req |-> "start", name |-> args.name, result |-> RtOK]
       /\ (stack = <<>> /\ Len(log) = 2 /\ Failed(log[2].result)) =>
             /\ ret.env = <<>>
             /\ ret.err = returned[1].err
             /\ ret.err = Wrap("failed to start container", log[2].result.msg)
       /\ \A i \in 1..Len(stack) : stack[i].res.env # <<>> => ret.err = NilErr /\ Len(log) = 2

C6_Witness ==
    /\ Done("FindEnvironment")
    /\ Len(log) = 2
    /\ Failed(log[2].result)
    /\ ret.env = <<>>
    /\ "web1" \in handles
    /\ args.name = "web2"

\* C7 as stated: whenever a runtime call of this component fails, the function
\* returns ErrMissingContainer if the error says "no such container" and the
\* error wrapped with context otherwise.
C7_SentinelEverywhere ==
    (stack # <<>> /\ Top.pc = "return" /\ Failed(Top.rt)) =>
       IF SaysNoSuchContainer(Top.rt)
       THEN Top.res.err = ErrMissingContainer
       ELSE Top.res.err.tag = "wrapped"

\* C7 as amended: a failed inspect gives ErrMissingContainer when the error
\* says "no such container" and the wrapped error otherwise; a failed copy
\* gives errNoSuchFile when it says "no such container:path" and the wrapped
\* error otherwise; a failed start, stop or remove always gives the wrapped
\* error, "no such container" included.
C7_SentinelOnlyFromInspect ==
    (stack # <<>> /\ Top.pc = "return" /\ Failed(Top.rt)) =>
       CASE Top.fn = "FindEnvironment" ->
               IF SaysNoSuchContainer(Top.rt)
               THEN Top.res.err = ErrMissingContainer
               ELSE Top.res.err = Wrap("failed to inspect container", Top.rt.msg)
         [] Top.fn = "readPath" ->
               IF SaysNoSuchPath(Top.rt)
               THEN Top.res.err = errNoSuchFile
               ELSE Top.res.err = Wrap("failed to get reader for path", Top.rt.msg)
         [] Top.fn = "Start" -> Top.res.err = Wrap("failed to start container", Top.rt.msg)
         [] Top.fn = "Stop" -> Top.res.err = Wrap("failed to stop container", Top.rt.msg)
         [] Top.fn = "Remove" -> Top.res.err = Wrap("failed to remove container", Top.rt.msg)

C7_Witness ==
    /\ stack # <<>>
    /\ Top.pc = "return"
    /\ Top.fn = "Stop"
    /\ Top.rt = RtErr(MsgNoSuchContainer)
    /\ Top.res.err.tag = "wrapped"

\* C8: Purge sends stop, then remove only if stop succeeded; it returns the
\* error Stop returned and sends no remove if stop failed, the error Remove
\* returned if remove failed, and nil only when both succeeded.
C8_PurgeStopsAtFirstFailure ==
    op = "Purge" =>
       /\ \A i \in 1..Len(log) :
            /\ i = 1 => log[i].req = "stop"
            /\ i = 2 => log[i].req = "remove" /\ log[1].result.isNil
            /\ i <= 2
       /\ stack = <<>> =>
             /\ Len(log) >= 1
             /\ returned[1].fn = "Stop"
             /\ IF Failed(log[1].result)
                THEN /\ Len(log) = 1
                     /\ ret.err = returned[1].err
                     /\ ret.err # NilErr
                ELSE /\ Len(log) = 2
                     /\ returned[2].fn = "Remove"
                     /\ ret.err = returned[2].err
                     /\ ret.err = NilErr <=> log[2].result.isNil

C8_Witness ==
    /\ Done("Purge")
    /\ Len(log) = 2
    /\ Failed(log[2].result)
    /\ ret.err = Wrap("failed to remove container", log[2].result.msg)

\* C9: readPath returns either the complete finalized archive and no error, or
\* an error and no archive; a failure to decode a header, write a header, copy
\* a payload or finalize returns the error wrapped with its phase.
C9_AllOrNothing ==
    Done("readPath") =>
       /\ \/ /\ ret.err = NilErr
             /\ ret.archive = <<[entries |-> buf, closed |-> TRUE]>>
             /\ twClosed
             /\ Len(buf) = Len(read)
             /\ \A i \in 1..Len(buf) : buf[i].body.payload = read[i].body.payload
          \/ /\ ret.err # NilErr
             /\ ret.archive = <<>>
       /\ (log[1].result.isNil /\ ret.err # NilErr) =>
             /\ ret.err.tag = "wrapped"
             /\ ret.err.ctx \in { "failed to read from tar reader", "failed to write header",
                                  "failed to copy", "failed to close tar writer" }
             /\ ret.err.cause \in CodecErrors
       /\ (~twClosed \/ Len(buf) # Len(read)) => ret.err # NilErr

C9_Witness ==
    /\ Done("readPath")
    /\ Len(read) = 2
    /\ Len(buf) = 2
    /\ buf[2].body.payload = <<"x">>
    /\ read[2].body.payload = <<"x", "y">>
    /\ ret.err.ctx = "failed to copy"
    /\ ret.archive = <<>>

\* C10: every docker client that is open belongs to a function that has not
\* returned yet and will close it when it returns, and so does the stream of
\* CopyFromContainer; once the caller's call has returned none is open.
DeferredBy(f, what) == Cardinality({ i \in 1..Len(f.defers) : f.defers[i] = what })

RECURSIVE Deferred(_, _)
Deferred(n, what) ==
    IF n = 0 THEN 0 ELSE DeferredBy(stack[n], what) + Deferred(n - 1, what)

C10_NothingOutlivesItsCall ==
    /\ openClients = Deferred(Len(stack), "cli")
    /\ rdr = "open" => Deferred(Len(stack), "rdr") = 1
    /\ stack = <<>> => (openClients = 0 /\ rdr # "open")

C10_Witness ==
    /\ Done("readPath")
    /\ rdr = "closed"
    /\ openClients = 0
    /\ ret.err.ctx = "failed to write header"

====
